---- MODULE Spec2Model ----
(***************************************************************************)
(* Model of breccia (src/src/lib.rs, marker.rs, offset.rs): a single-file, *)
(* append-only blob store.  The body of the file is a sequence of 8-byte   *)
(* words; a word is kept as the tuple of its 8 bytes in file order         *)
(* (little-endian), so that markers, payload and 0xFE tail fill are told   *)
(* apart only by decoding, as in the code.                                 *)
(***************************************************************************)
EXTENDS Integers, Sequences, FiniteSets, TLC

\* ------------------------------------------------------------------ bounds
\* Length of the body, in words, that the writer may reach.
MaxWords == 7

\* Number of answers a scripted comparator gives before it ends the search.
MaxScript == 3

\* Longest magic and longest serialized header of the header types that
\* create is given.
MaxMagic == 8
MaxHeaderSize == 2

\* Inputs of the padding probe: the terminator index, the number of whole
\* chunks of the blob, and the body index a chunk may read as.
MaxTerminator == 3
MaxChunks == 3
MaxChunkValue == 5

\* The longest prefix of calls a search closure answers one by one.
MaxPrefix == 1

\* How far past the number of body words the ends of a searched range go.
MaxBeyond == 2

\* ------------------------------------------------------------- marker.rs
Clean == 0
Dirty == 1

\* size_of::<Marker>() in bytes
MarkerSize == 8

\* Byte i (1-based, least significant first) of a usize.  Body indices of the
\* model stay below 2^24, so bytes 4..8 of an index are zero.
ByteOf(raw, i) == IF i <= 3 THEN (raw \div (256 ^ (i - 1))) % 256 ELSE 0

\* Offset::new: the 60-bit pattern of a body index, as 7 bytes and a nibble.
Offset_new(raw) == [i \in 1..8 |-> ByteOf(raw, i)]

\* A Marker::new that drops the state it is given.
Marker_new_always_clean(raw, padding_len, dirty) ==
    [i \in 1..8 |-> IF i < 8 THEN ByteOf(raw, i)
                    ELSE ByteOf(raw, 8) + 32 * padding_len]

\* Marker::new followed by to_bytes: offset in bits 0..59, state in bit 60,
\* padding_len in bits 61..63.
Marker_new(raw, padding_len, dirty) ==
    [i \in 1..8 |-> IF i < 8 THEN ByteOf(raw, i)
                    ELSE ByteOf(raw, 8) + 16 * dirty + 32 * padding_len]

\* A pad-marker that claims no padding bytes.
new_padding_len_zero(raw) == Marker_new(raw, 0, Dirty)

new_padding(raw) == Marker_new(raw, 7, Dirty)

\* Marker::offset: the word with its top four bits masked off.
Marker_offset(w) == [i \in 1..8 |-> IF i < 8 THEN w[i] ELSE w[8] % 16]

state(w) == IF (w[8] \div 16) % 2 = 0 THEN Clean ELSE Dirty

set_state(w, st) == [w EXCEPT ![8] = (w[8] - 16 * ((w[8] \div 16) % 2)) + 16 * st]

\* A shift by the state bit's position instead of the padding length's.
padding_len_state_shift(w) == w[8] \div 16

padding_len(w) == w[8] \div 32

is_padding(w) == padding_len(w) = 7 /\ state(w) = Dirty

\* Marker::slice_to_bytes: the bytes of a slice of words, in file order.
RECURSIVE slice_to_bytes(_)
slice_to_bytes(ws) ==
    IF ws = <<>> THEN <<>> ELSE Head(ws) \o slice_to_bytes(Tail(ws))

\* The inverse view: a byte string whose length is a multiple of 8, as words.
RECURSIVE BytesToWords(_)
BytesToWords(bs) ==
    IF bs = <<>> THEN <<>>
    ELSE <<SubSeq(bs, 1, MarkerSize)>> \o BytesToWords(SubSeq(bs, MarkerSize + 1, Len(bs)))

\* ------------------------------------------------------------- header.rs
\* The header type of the tests: one magic byte and a one-byte header.
MAGIC == <<0>>

SERIALIZED_SIZE == 1

\* TestHeader(0x42), serialized.
HeaderBytes == <<66>>

PADDING_SIZE == MarkerSize - ((Len(MAGIC) + SERIALIZED_SIZE) % MarkerSize)

SIZE_WITH_PADDING == Len(MAGIC) + SERIALIZED_SIZE + PADDING_SIZE

\* ------------------------------------------------------------- offset.rs
\* Offset::try_from_file_offset: a byte offset of the file as a body index;
\* -1 stands for the two errors (within the header, unaligned).
try_from_file_offset(file_offset) ==
    IF file_offset < SIZE_WITH_PADDING THEN -1
    ELSE IF (file_offset - SIZE_WITH_PADDING) % MarkerSize /= 0 THEN -1
    ELSE (file_offset - SIZE_WITH_PADDING) \div MarkerSize

\* ------------------------------------------------------------ values
None == <<>>
Panic == "panic"
NoBatch == [open |-> FALSE, blob_offset |-> 0, buf |-> <<>>, pending_marker |-> None,
            pos |-> 0, log |-> <<>>, marks |-> {}]

\* File::write at a position (in words from the start of the file):
\* overwrites what is there and extends the file.
WriteAt(f, pos, ws) ==
    SubSeq(f, 1, pos) \o ws \o SubSeq(f, pos + Len(ws) + 1, Len(f))

IsPrefix(s, t) == Len(s) <= Len(t) /\ SubSeq(t, 1, Len(s)) = s

\* ------------------------------------------------------- Batch (writer)
\* Breccia::try_map_to_markers_slice: the file after the header frame, as
\* words.
try_map_to_markers_slice(f) == SubSeq(f, (SIZE_WITH_PADDING \div MarkerSize) + 1, Len(f))

\* BrecciaMut::create_from_file: magic, header, zero padding and the initial
\* terminator.
create_from_file ==
    BytesToWords(MAGIC \o HeaderBytes \o [i \in 1..PADDING_SIZE |-> 0])
        \o <<Marker_new(0, 0, Clean)>>

\* A Batch::new that leaves the file position on the terminator.
Batch_new_rewind(f) ==
    LET seek        == (Len(f) * MarkerSize) - MarkerSize
        blob_offset == try_from_file_offset(seek)
        end_marker  == f[(seek \div MarkerSize) + 1]
    IN  IF blob_offset < 0 \/ state(end_marker) = Dirty
        THEN [ok |-> FALSE, batch |-> NoBatch]
        ELSE [ok |-> TRUE,
              batch |-> [open |-> TRUE, blob_offset |-> blob_offset, buf |-> <<>>,
                         pending_marker |-> None,
                         pos |-> seek \div MarkerSize,
                         log |-> <<>>, marks |-> {}]]

\* Batch::new: seek to the last word, read it (which leaves the position at
\* the end of the file), stop on a Dirty state bit.
\* A Batch::new that does not look at the state of the last word.
Batch_new_unchecked(f) ==
    LET seek        == (Len(f) * MarkerSize) - MarkerSize
        blob_offset == try_from_file_offset(seek)
    IN  IF blob_offset < 0
        THEN [ok |-> FALSE, batch |-> NoBatch]
        ELSE [ok |-> TRUE,
              batch |-> [open |-> TRUE, blob_offset |-> blob_offset, buf |-> <<>>,
                         pending_marker |-> None,
                         pos |-> (seek + MarkerSize) \div MarkerSize,
                         log |-> <<>>, marks |-> {}]]

Batch_new(f) ==
    LET seek        == (Len(f) * MarkerSize) - MarkerSize
        blob_offset == try_from_file_offset(seek)
        end_marker  == f[(seek \div MarkerSize) + 1]
    IN  IF blob_offset < 0 \/ state(end_marker) = Dirty
        THEN [ok |-> FALSE, batch |-> NoBatch]
        ELSE [ok |-> TRUE,
              batch |-> [open |-> TRUE, blob_offset |-> blob_offset, buf |-> <<>>,
                         pending_marker |-> None,
                         pos |-> (seek + MarkerSize) \div MarkerSize,
                         log |-> <<>>, marks |-> {}]]

\* 0xFE fill up to the next word boundary.
end_padding_len(blob) == ((MarkerSize - (Len(blob) % MarkerSize)) % MarkerSize)

\* A tail fill of zero bytes.
end_padding_zero(blob) == [i \in 1..end_padding_len(blob) |-> 0]

end_padding(blob) == [i \in 1..end_padding_len(blob) |-> 254]

\* The chunks the padding probe looks at: the blob's whole 8-byte chunks and
\* the final partial chunk filled with 0xFE.
Chunks(blob) == BytesToWords(blob \o end_padding(blob))

\* A probe that looks at the first chunk only.
RECURSIVE PaddingProbe_first_chunk(_, _, _)
PaddingProbe_first_chunk(chunks, blob_offset, padding) ==
    IF /\ Len(chunks) >= 1
       /\ Offset_new(blob_offset + 1 + padding) = Marker_offset(chunks[1])
    THEN PaddingProbe_first_chunk(chunks, blob_offset, padding + 1)
    ELSE padding

\* A probe that steps the padding by two on a collision.
RECURSIVE PaddingProbe_step_two(_, _, _)
PaddingProbe_step_two(chunks, blob_offset, padding) ==
    IF \E i \in 1..Len(chunks) :
         Offset_new(blob_offset + 1 + padding + (i - 1)) = Marker_offset(chunks[i])
    THEN PaddingProbe_step_two(chunks, blob_offset, padding + 2)
    ELSE padding

\* The padding probe of Batch::write_blob: the least padding, tried in the
\* order 0, 1, 2, ..., for which no chunk decodes to the index it lands on.
RECURSIVE PaddingProbe(_, _, _)
PaddingProbe(chunks, blob_offset, padding) ==
    IF \E i \in 1..Len(chunks) :
         Offset_new(blob_offset + 1 + padding + (i - 1)) = Marker_offset(chunks[i])
    THEN PaddingProbe(chunks, blob_offset, padding + 1)
    ELSE padding

\* Batch::write_blob.  Returns the batch and the Offset handed to the caller.
Batch_write_blob(b, blob) ==
    LET flushed     == IF b.pending_marker = None THEN <<>> ELSE <<b.pending_marker>>
        padding     == PaddingProbe(Chunks(blob), b.blob_offset, 0)
        pads        == [i \in 1..padding |-> new_padding(b.blob_offset + i)]
        blob_offset == b.blob_offset + padding
        nwords      == (Len(blob) + end_padding_len(blob)) \div MarkerSize
        end_marker_offset == blob_offset + 1 + nwords
    IN  [batch |->
           [open |-> TRUE,
            blob_offset |-> b.blob_offset + 1 + padding + nwords,
            buf |-> b.buf \o flushed \o pads \o BytesToWords(blob \o end_padding(blob)),
            pending_marker |-> Marker_new(end_marker_offset, end_padding_len(blob), Dirty),
            pos |-> b.pos,
            log |-> Append(b.log, <<blob_offset, blob>>),
            marks |-> b.marks \cup {b.blob_offset + i : i \in 1..padding}
                              \cup {end_marker_offset}],
         offset |-> blob_offset]

\* A commit that writes the pending marker as it is, Dirty.
Batch_commit_dirty(b, f) == WriteAt(f, b.pos, Append(b.buf, b.pending_marker))

\* A commit that also turns the terminator the batch started from into a
\* padding-only marker.
Batch_commit_over_terminator(b, f) ==
    WriteAt(f, b.pos - 1,
            <<new_padding(try_from_file_offset((b.pos - 1) * MarkerSize))>>
                \o Append(b.buf, set_state(b.pending_marker, Clean)))

\* Batch::commit for a batch with a pending marker: the file after the Clean
\* marker is written and the BufWriter is flushed.
Batch_commit(b, f) ==
    WriteAt(f, b.pos, Append(b.buf, set_state(b.pending_marker, Clean)))

\* Dropping a Batch drops its BufWriter, which writes what it has buffered.
Batch_drop(b, f) == WriteAt(f, b.pos, b.buf)

\* ------------------------------------------------------- Blobs (reader)
\* A Blobs::new that takes the slice as it is given.
Blobs_new_no_resync(m, offset) == [map |-> m, offset |-> offset]

\* Blobs::new: resync, dropping head words until one encodes the offset.
RECURSIVE Blobs_new(_, _)
Blobs_new(m, offset) ==
    IF m = <<>> THEN [map |-> m, offset |-> offset]
    ELSE IF Marker_offset(Head(m)) = Offset_new(offset)
         THEN [map |-> m, offset |-> offset]
         ELSE Blobs_new(Tail(m), offset + 1)

\* Blobs::next.  blob_len_words is the loop counter of the code; a marker
\* whose padding_len exceeds the bytes before it makes the iterator step
\* its start by one word and go on.
RECURSIVE next_scan(_, _, _)
next_scan(m, offset, blob_len_words) ==
    IF 1 + blob_len_words >= Len(m)
    THEN [map |-> m, offset |-> offset, kind |-> "None", item |-> None]
    ELSE LET potential_marker == m[2 + blob_len_words]
             end_offset == offset + blob_len_words + 1
         IN  IF Marker_offset(potential_marker) = Offset_new(end_offset)
             THEN LET blob == slice_to_bytes(SubSeq(m, 2, 1 + blob_len_words))
                  IN  IF Len(blob) >= padding_len(potential_marker)
                      THEN [map |-> SubSeq(m, blob_len_words + 2, Len(m)),
                            offset |-> end_offset,
                            kind |-> "Some",
                            item |-> <<offset,
                                       SubSeq(blob, 1, Len(blob) - padding_len(potential_marker))>>]
                      ELSE next_scan(Tail(m), offset + 1, blob_len_words)
             ELSE next_scan(m, offset, blob_len_words + 1)

next(m, offset) == next_scan(m, offset, 0)

\* The forward iterator run from the start of a view until it returns None:
\* Breccia::blobs followed by next() calls.
RECURSIVE collect(_, _)
collect(m, offset) ==
    LET r == next(m, offset)
    IN  IF r.kind = "Some" THEN <<r.item>> \o collect(r.map, r.offset) ELSE <<>>

blobs_collect(m) == LET b == Blobs_new(m, 0) IN collect(b.map, b.offset)

\* next_back without its first loop.
consume_padding_skipped(m, offset) == m

\* Blobs::next_back, first loop: drop trailing padding-only markers.
RECURSIVE consume_padding(_, _)
consume_padding(m, offset) ==
    IF /\ Len(m) >= 2
       /\ Marker_offset(m[Len(m) - 1]) = Offset_new(offset + Len(m) - 2)
       /\ Marker_offset(m[Len(m)]) = Offset_new(offset + Len(m) - 1)
       /\ is_padding(m[Len(m)])
    THEN consume_padding(SubSeq(m, 1, Len(m) - 1), offset)
    ELSE m

\* Blobs::next_back, second loop: walk start_offset (an index into the
\* slice) down to a word that encodes Offset::new(start_offset).
RECURSIVE back_scan(_, _, _)
back_scan(m, offset, start_offset) ==
    IF Marker_offset(m[start_offset + 1]) = Offset_new(start_offset)
    THEN LET blob == slice_to_bytes(SubSeq(m, start_offset + 2, Len(m) - 1))
             end_marker == m[Len(m)]
         IN  IF Len(blob) >= padding_len(end_marker)
             THEN [map |-> SubSeq(m, 1, start_offset + 1), offset |-> offset,
                   kind |-> "Some",
                   item |-> <<start_offset,
                              SubSeq(blob, 1, Len(blob) - padding_len(end_marker))>>]
             ELSE [map |-> m, offset |-> offset, kind |-> Panic, item |-> None]
    ELSE IF start_offset > 0
         THEN back_scan(m, offset, start_offset - 1)
         ELSE [map |-> m, offset |-> offset, kind |-> Panic, item |-> None]

next_back(m0, offset) ==
    LET m == consume_padding(m0, offset)
    IN  IF Len(m) < 2
        THEN [map |-> m, offset |-> offset, kind |-> "None", item |-> None]
        ELSE back_scan(m, offset, Len(m) - 2)

\* Breccia::get_blob.  end_offset is bound once and never advanced, so a
\* word after the start marker that is neither padding-only nor the end
\* marker is read again and again.
Diverge == "diverge"

\* A get_blob that scans from any word in range, marker or not.
get_blob_no_alignment_check(m, offset) ==
    IF offset >= Len(m) THEN [kind |-> "OutOfRange", blob |-> <<>>]
    ELSE LET end_offset == offset + 1
         IN  IF end_offset >= Len(m) THEN [kind |-> Panic, blob |-> <<>>]
             ELSE LET potential_mark == m[end_offset + 1]
                  IN  IF is_padding(potential_mark) THEN [kind |-> Panic, blob |-> <<>>]
                      ELSE IF Marker_offset(potential_mark) = Offset_new(end_offset)
                      THEN [kind |-> "Ok", blob |-> <<>>]
                      ELSE [kind |-> Diverge, blob |-> <<>>]

get_blob(m, offset) ==
    IF offset >= Len(m) THEN [kind |-> "OutOfRange", blob |-> <<>>]
    ELSE IF Marker_offset(m[offset + 1]) = Offset_new(offset)
    THEN LET end_offset == offset + 1
         IN  IF end_offset >= Len(m) THEN [kind |-> Panic, blob |-> <<>>]
             ELSE LET potential_mark == m[end_offset + 1]
                      blob == slice_to_bytes(SubSeq(m, offset + 2, end_offset))
                  IN  IF is_padding(potential_mark) THEN [kind |-> Panic, blob |-> <<>>]
                      ELSE IF Marker_offset(potential_mark) = Offset_new(end_offset)
                      THEN IF Len(blob) >= padding_len(potential_mark)
                           THEN [kind |-> "Ok",
                                 blob |-> SubSeq(blob, 1, Len(blob) - padding_len(potential_mark))]
                           ELSE [kind |-> Panic, blob |-> <<>>]
                      ELSE [kind |-> Diverge, blob |-> <<>>]
    ELSE [kind |-> "Unaligned", blob |-> <<>>]

\* ------------------------------------------------------- binary search
\* The comparator of tests::binary_search_for_ints and of the seek bench:
\* the key is read from the front of the blob (one byte here), and the
\* conversion of a blob too short to hold a key panics.
Key(blob) == blob[1]

IntCmp(target, offset, blob) ==
    IF Len(blob) < 1 THEN [kind |-> Panic, val |-> 0]
    ELSE IF target = Key(blob) THEN [kind |-> "OkSome", val |-> offset]
    ELSE IF target < Key(blob) THEN [kind |-> "Left", val |-> 0]
    ELSE [kind |-> "Right", val |-> 0]

\* The answers Err(Search::Left), Err(Search::Right), Err(Search::Next).
Answers == {"Left", "Right", "Next"}

\* A comparator f is a record; probes are the offsets it has been given.
\* The parameter f is any FnMut closure: besides the integer comparator
\* (a target key), a closure may answer by the number of the call; after
\* its script it answers Ok(None), or, when it has a field then, that
\* verdict at every further call (Ok(Some(r)) with r the offset it is given).
Compare(f, probes, offset, blob) ==
    IF "script" \in DOMAIN f
    THEN IF Len(probes) < Len(f.script)
         THEN [kind |-> f.script[Len(probes) + 1], val |-> 0]
         ELSE IF "then" \in DOMAIN f
              THEN [kind |-> f.then, val |-> IF f.then = "OkSome" THEN offset ELSE 0]
              ELSE [kind |-> "OkNone", val |-> 0]
    ELSE IntCmp(f.target, offset, blob)

RECURSIVE binary_search_in_range(_, _, _, _, _)
RECURSIVE search_loop(_, _, _, _, _, _, _)

\* A loop that gives up when the blobs from the midpoint on are used up,
\* without searching the left half.
RECURSIVE search_loop_no_left(_, _, _, _, _, _, _)
search_loop_no_left(m, f, lo, hi, midpoint, blobs, probes) ==
    LET r == next(blobs.map, blobs.offset)
    IN  IF r.kind = "Some" /\ r.item[1] < hi
        THEN LET v == Compare(f, probes, r.item[1], r.item[2])
                 probed == Append(probes, r.item[1])
             IN  CASE v.kind = "OkSome" -> [kind |-> "Some", val |-> v.val, probes |-> probed]
                   [] v.kind = "OkNone" -> [kind |-> "None", val |-> 0, probes |-> probed]
                   [] v.kind = "Next" ->
                        search_loop_no_left(m, f, lo, hi, midpoint,
                                            [map |-> r.map, offset |-> r.offset], probed)
                   [] v.kind = "Right" -> binary_search_in_range(m, f, midpoint + 1, hi, probed)
                   [] v.kind = "Left" -> binary_search_in_range(m, f, lo, midpoint, probed)
                   [] OTHER -> [kind |-> Panic, val |-> 0, probes |-> probed]
        ELSE [kind |-> "None", val |-> 0, probes |-> probes]

search_loop(m, f, lo, hi, midpoint, blobs, probes) ==
    LET r == next(blobs.map, blobs.offset)
    IN  IF r.kind = "Some" /\ r.item[1] < hi
        THEN LET v == Compare(f, probes, r.item[1], r.item[2])
                 probed == Append(probes, r.item[1])
             IN  CASE v.kind = "OkSome" -> [kind |-> "Some", val |-> v.val, probes |-> probed]
                   [] v.kind = "OkNone" -> [kind |-> "None", val |-> 0, probes |-> probed]
                   [] v.kind = "Next" ->
                        search_loop(m, f, lo, hi, midpoint,
                                    [map |-> r.map, offset |-> r.offset], probed)
                   [] v.kind = "Right" -> binary_search_in_range(m, f, midpoint + 1, hi, probed)
                   [] v.kind = "Left" -> binary_search_in_range(m, f, lo, midpoint, probed)
                   [] OTHER -> [kind |-> Panic, val |-> 0, probes |-> probed]
        ELSE IF lo /= midpoint
             THEN binary_search_in_range(m, f, lo, midpoint, probes)
             ELSE [kind |-> "None", val |-> 0, probes |-> probes]

\* A search that does not return early on an empty range.
binary_search_in_range_no_empty_check(m, f, lo, hi, probes) ==
    IF lo > hi THEN [kind |-> Panic, val |-> 0, probes |-> probes]
    ELSE LET midpoint == (lo + hi) \div 2
         IN  IF midpoint > Len(m) THEN [kind |-> Panic, val |-> 0, probes |-> probes]
             ELSE search_loop(m, f, lo, hi, midpoint,
                              Blobs_new(SubSeq(m, midpoint + 1, Len(m)), midpoint), probes)

binary_search_in_range(m, f, lo, hi, probes) ==
    IF lo > hi THEN [kind |-> Panic, val |-> 0, probes |-> probes]
    ELSE IF lo = hi THEN [kind |-> "None", val |-> 0, probes |-> probes]
    ELSE LET midpoint == (lo + hi) \div 2
         IN  IF midpoint > Len(m) THEN [kind |-> Panic, val |-> 0, probes |-> probes]
             ELSE search_loop(m, f, lo, hi, midpoint,
                              Blobs_new(SubSeq(m, midpoint + 1, Len(m)), midpoint), probes)

binary_search(m, f) == binary_search_in_range(m, f, 0, Len(m), <<>>)

\* ------------------------------------------------------------ inputs
\* Blob contents the writer is given.  They are chosen so that the cases of
\* the framing happen: the empty blob, a one-byte blob (tail fill 7), whole
\* words that read as markers of small body indices (Clean, padding-only),
\* a two-word blob that collides at two successive paddings, and a blob
\* that ends in a partial word.
BlobEmpty == <<>>
BlobByte  == <<1>>
BlobTwo   == <<2, 0, 0, 0, 0, 0, 0, 0>>
BlobThree == <<3, 0, 0, 0, 0, 0, 0, 240>>
BlobPair  == <<1, 0, 0, 0, 0, 0, 0, 224, 3, 0, 0, 0, 0, 0, 0, 0>>
BlobNine  == <<5, 0, 0, 0, 0, 0, 0, 0, 9>>

BlobSet == {BlobEmpty, BlobByte, BlobTwo, BlobThree, BlobPair, BlobNine}

Keys == {Key(b) : b \in BlobSet \ {BlobEmpty}}

\* ------------------------------------------------------------- state
VARIABLES
    file,       \* the file, a sequence of words (header frame, then the body)
    map,        \* Breccia.markers: the reader's view, as of the last mmap
    batch,      \* the open Batch, or NoBatch
    it,         \* the live Blobs iterator, or NoIter
    res,        \* what the last reader call or stopped writer call returned
    written,    \* the (offset, blob) pairs that committed writes returned
    marks,      \* body indices at which committed writes put a marker
    term,       \* body index of the terminator that create or commit wrote last
    abandoned   \* a batch that had written a blob was dropped without commit

vars == <<file, map, batch, it, res, written, marks, term, abandoned>>

NoIter == [active |-> FALSE, map |-> <<>>, offset |-> 0, fwd |-> <<>>, bwd |-> <<>>,
           fdone |-> FALSE, bdone |-> FALSE, dead |-> FALSE]

\* The body of the file.
body == try_map_to_markers_slice(file)

Idle == [op |-> "idle", arg |-> 0, range |-> <<>>, script |-> <<>>, header |-> <<>>,
         kind |-> "None", blob |-> <<>>, val |-> 0,
         probes |-> <<>>, then |-> "OkNone", offset |-> <<>>]

\* BrecciaMut::create_from_file followed by open_file: the body holds the
\* initial Clean terminator and the reader maps it.
Init ==
    /\ file = create_from_file
    /\ map = try_map_to_markers_slice(file)
    /\ batch = NoBatch
    /\ it = NoIter
    /\ res = [Idle EXCEPT !.op = "create", !.kind = "Ok"]
    /\ written = <<>>
    /\ marks = {0}
    /\ term = 0
    /\ abandoned = FALSE

\* ------------------------------------------------------ writer actions
\* BrecciaMut::start_batch.
start_batch ==
    /\ ~batch.open /\ ~it.active /\ res = Idle
    /\ LET b == Batch_new(file)
       IN  IF ~b.ok
           THEN /\ res' = [Idle EXCEPT !.op = "start_batch", !.kind = Panic]
                /\ UNCHANGED batch
           ELSE /\ batch' = b.batch
                /\ res' = Idle
    /\ UNCHANGED <<file, map, it, written, marks, term, abandoned>>

\* Batch::write_blob on the open batch.
Batch_write(blob) ==
    /\ batch.open
    /\ Batch_write_blob(batch, blob).batch.blob_offset < MaxWords
    /\ batch' = Batch_write_blob(batch, blob).batch
    /\ UNCHANGED <<file, map, it, res, written, marks, term, abandoned>>

\* A commit that, with no pending marker, writes a Clean terminator after
\* the old one and reloads instead of panicking.
commit_empty_writes ==
    /\ batch.open
    /\ IF batch.pending_marker = None
       THEN /\ file' = WriteAt(file, batch.pos,
                               <<Marker_new(batch.blob_offset + 1, 0, Clean)>>)
            /\ map' = try_map_to_markers_slice(file')
            /\ res' = [Idle EXCEPT !.op = "commit", !.kind = "Ok"]
            /\ UNCHANGED <<written, marks, term>>
       ELSE /\ file' = Batch_commit(batch, file)
            /\ map' = try_map_to_markers_slice(file')
            /\ written' = written \o batch.log
            /\ marks' = marks \cup batch.marks
            /\ term' = batch.blob_offset
            /\ res' = [Idle EXCEPT !.op = "commit", !.kind = "Ok"]
    /\ batch' = NoBatch
    /\ UNCHANGED <<it, abandoned>>

\* Batch::commit: with no pending marker it panics and the batch is dropped;
\* otherwise it writes the Clean marker, flushes and reloads the reader.
commit ==
    /\ batch.open
    /\ IF batch.pending_marker = None
       THEN /\ file' = Batch_drop(batch, file)
            /\ res' = [Idle EXCEPT !.op = "commit", !.kind = Panic]
            /\ UNCHANGED <<map, written, marks, term>>
       ELSE /\ file' = Batch_commit(batch, file)
            /\ map' = try_map_to_markers_slice(file')
            /\ written' = written \o batch.log
            /\ marks' = marks \cup batch.marks
            /\ term' = batch.blob_offset
            /\ res' = [Idle EXCEPT !.op = "commit", !.kind = "Ok"]
    /\ batch' = NoBatch
    /\ UNCHANGED <<it, abandoned>>

\* A Batch going out of scope without commit.
Batch_dropped ==
    /\ batch.open
    /\ file' = Batch_drop(batch, file)
    /\ abandoned' = (abandoned \/ batch.pending_marker /= None)
    /\ batch' = NoBatch
    /\ UNCHANGED <<map, it, res, written, marks, term>>

\* BrecciaMut::write_blob: start_batch, Batch::write_blob, commit.
write_blob(blob) ==
    /\ ~batch.open /\ ~it.active /\ res = Idle
    /\ LET b0 == Batch_new(file)
       IN  IF ~b0.ok
           THEN /\ res' = [Idle EXCEPT !.op = "write_blob", !.kind = Panic]
                /\ UNCHANGED <<file, map, written, marks, term>>
           ELSE LET w == Batch_write_blob(b0.batch, blob)
                IN  /\ w.batch.blob_offset < MaxWords
                    /\ file' = Batch_commit(w.batch, file)
                    /\ map' = try_map_to_markers_slice(file')
                    /\ written' = Append(written, <<w.offset, blob>>)
                    /\ marks' = marks \cup w.batch.marks
                    /\ term' = w.batch.blob_offset
                    /\ res' = [Idle EXCEPT !.op = "write_blob", !.kind = "Ok",
                                           !.val = w.offset]
    /\ UNCHANGED <<batch, it, abandoned>>

\* Breccia::reload.
reload ==
    /\ ~batch.open /\ ~it.active /\ res = Idle
    /\ map' = try_map_to_markers_slice(file)
    /\ map' /= map
    /\ res' = Idle
    /\ UNCHANGED <<file, batch, it, written, marks, term, abandoned>>

\* ------------------------------------------------------ reader actions
\* Breccia::blobs.
blobs ==
    /\ ~batch.open /\ ~it.active /\ res = Idle
    /\ LET b == Blobs_new(map, 0)
       IN  it' = [NoIter EXCEPT !.active = TRUE, !.map = b.map, !.offset = b.offset]
    /\ res' = Idle
    /\ UNCHANGED <<file, map, batch, written, marks, term, abandoned>>

\* A next() that, when it has nothing left, starts over from the front of
\* the view.
Blobs_next_restarting ==
    /\ it.active /\ ~it.dead
    /\ LET r == next(it.map, it.offset)
           b == Blobs_new(map, 0)
       IN  it' = [it EXCEPT !.map = IF r.kind = "None" THEN b.map ELSE r.map,
                            !.offset = IF r.kind = "None" THEN b.offset ELSE r.offset,
                            !.fwd = IF r.kind = "Some" THEN Append(@, r.item) ELSE @,
                            !.fdone = (@ \/ r.kind = "None")]
    /\ UNCHANGED <<file, map, batch, res, written, marks, term, abandoned>>

Blobs_next ==
    /\ it.active /\ ~it.dead
    /\ LET r == next(it.map, it.offset)
       IN  it' = [it EXCEPT !.map = r.map, !.offset = r.offset,
                            !.fwd = IF r.kind = "Some" THEN Append(@, r.item) ELSE @,
                            !.fdone = (@ \/ r.kind = "None")]
    /\ UNCHANGED <<file, map, batch, res, written, marks, term, abandoned>>

Blobs_next_back ==
    /\ it.active /\ ~it.dead
    /\ LET r == next_back(it.map, it.offset)
       IN  it' = [it EXCEPT !.map = r.map, !.offset = r.offset,
                            !.bwd = IF r.kind = "Some" THEN Append(@, r.item) ELSE @,
                            !.bdone = (@ \/ r.kind = "None"),
                            !.dead = (r.kind = Panic)]
    /\ UNCHANGED <<file, map, batch, res, written, marks, term, abandoned>>

\* The iterator goes out of scope.
Blobs_dropped ==
    /\ it.active
    /\ it' = NoIter
    /\ UNCHANGED <<file, map, batch, res, written, marks, term, abandoned>>

\* Breccia::get_blob, for every offset up to one past the view.
GetBlob(o) ==
    /\ ~batch.open /\ ~it.active /\ res = Idle
    /\ LET r == get_blob(map, o)
       IN  res' = [Idle EXCEPT !.op = "get_blob", !.arg = o, !.kind = r.kind,
                               !.blob = r.blob]
    /\ UNCHANGED <<file, map, batch, it, written, marks, term, abandoned>>

\* Breccia::binary_search with the integer comparator, for a target key.
BinarySearch(t) ==
    /\ ~batch.open /\ ~it.active /\ res = Idle
    /\ LET r == binary_search(map, [target |-> t])
       IN  res' = [Idle EXCEPT !.op = "binary_search", !.arg = t, !.kind = r.kind,
                               !.val = r.val, !.probes = r.probes]
    /\ UNCHANGED <<file, map, batch, it, written, marks, term, abandoned>>

\* The caller takes the result of the call that has just returned or stopped.
Returned ==
    /\ res /= Idle
    /\ res' = Idle
    /\ UNCHANGED <<file, map, batch, it, written, marks, term, abandoned>>

Next ==
    \/ start_batch
    \/ \E blob \in BlobSet : Batch_write(blob)
    \/ commit
    \/ Batch_dropped
    \/ \E blob \in BlobSet : write_blob(blob)
    \/ reload
    \/ blobs
    \/ Blobs_next
    \/ Blobs_next_back
    \/ Blobs_dropped
    \/ \E o \in 0..(Len(map) + 1) : GetBlob(o)
    \/ \E t \in Keys : BinarySearch(t)
    \/ Returned

Spec == Init /\ [][Next]_vars

\* ------------------------------------------------- searches of a store
\* Comparators that answer by call number.
Scripts == UNION {[1..n -> Answers] : n \in 0..MaxScript}

\* Breccia::binary_search with a closure that answers by call number.
ScriptedSearch(script) ==
    /\ ~batch.open /\ ~it.active /\ res = Idle
    /\ LET r == binary_search(map, [script |-> script])
       IN  res' = [Idle EXCEPT !.op = "scripted_search", !.script = script,
                               !.range = <<0, Len(map)>>, !.kind = r.kind,
                               !.val = r.val, !.probes = r.probes]
    /\ UNCHANGED <<file, map, batch, it, written, marks, term, abandoned>>

\* Breccia::binary_search_in_range with the integer comparator.
RangeSearch(lo, hi, t) ==
    /\ ~batch.open /\ ~it.active /\ res = Idle
    /\ LET r == binary_search_in_range(map, [target |-> t], lo, hi, <<>>)
       IN  res' = [Idle EXCEPT !.op = "range_search", !.arg = t,
                               !.range = <<lo, hi>>, !.kind = r.kind,
                               !.val = r.val, !.probes = r.probes]
    /\ UNCHANGED <<file, map, batch, it, written, marks, term, abandoned>>

\* Blobs::new on the view from body index mid, as binary_search_in_range
\* makes it for a midpoint, followed by next() until None.
Resync(mid) ==
    /\ ~batch.open /\ ~it.active /\ res = Idle
    /\ LET b == Blobs_new(SubSeq(map, mid + 1, Len(map)), mid)
       IN  res' = [Idle EXCEPT !.op = "resync", !.arg = mid,
                               !.blob = collect(b.map, b.offset)]
    /\ UNCHANGED <<file, map, batch, it, written, marks, term, abandoned>>

SearchNext ==
    \/ \E mid \in 0..Len(map) : Resync(mid)
    \/ \E blob \in BlobSet : write_blob(blob)
    \/ \E script \in Scripts : ScriptedSearch(script)
    \/ \E lo, hi \in 0..(Len(map) + MaxBeyond) : \E t \in Keys : RangeSearch(lo, hi, t)
    \/ Returned

SearchSpec == Init /\ [][SearchNext]_vars

\* ------------------------------------------- markers of any offset
\* Marker::PADDING_LEN_OFFSET and Marker::STATE_BIT_OFFSET, for a usize of
\* 64 bits.
PADDING_LEN_OFFSET == 61
STATE_BIT_OFFSET == 60

\* A usize is held as its 8 little-endian bytes.  Bit k of it (0 is the
\* least significant), the usize of 64 given bits, and the operators <<
\* (bits shifted past bit 63 are lost) and |.
Bit(w, k) == (w[(k \div 8) + 1] \div (2 ^ (k % 8))) % 2

FromBits(b) ==
    [i \in 1..8 |->
        LET B(j) == b[8 * (i - 1) + j] * (2 ^ j)
        IN  B(0) + B(1) + B(2) + B(3) + B(4) + B(5) + B(6) + B(7)]

Shl(w, n) == FromBits([k \in 0..63 |-> IF k >= n THEN Bit(w, k - n) ELSE 0])

BitOr(x, y) ==
    FromBits([k \in 0..63 |-> IF Bit(x, k) = 1 \/ Bit(y, k) = 1 THEN 1 ELSE 0])

\* A Marker::new that shifts the padding length to the state bit's place.
Marker_new_usize_padding_at_state(o, pad_len, dirty) ==
    BitOr(BitOr(o, Shl([i \in 1..8 |-> ByteOf(pad_len, i)], STATE_BIT_OFFSET)),
          Shl([i \in 1..8 |-> ByteOf(dirty, i)], STATE_BIT_OFFSET))

\* Marker::new on an Offset given as the 8 bytes of its raw usize.
Marker_new_usize(o, pad_len, dirty) ==
    BitOr(BitOr(o, Shl([i \in 1..8 |-> ByteOf(pad_len, i)], PADDING_LEN_OFFSET)),
          Shl([i \in 1..8 |-> ByteOf(dirty, i)], STATE_BIT_OFFSET))

\* Offsets below 2^60: every byte all zeros or all ones, the body indices
\* of the model, and the offset of the crate's own test.
WideOffsets ==
    {[i \in 1..8 |-> IF i = 8 THEN b[i] % 16 ELSE b[i]] : b \in [1..8 -> {0, 255}]}
        \cup {Offset_new(k) : k \in 0..MaxWords} \cup {Offset_new(42)}

\* Marker::new.
Marker_made(o, pad_len, st) ==
    /\ res = Idle
    /\ res' = [Idle EXCEPT !.op = "marker_new", !.offset = o, !.arg = pad_len,
                           !.val = st,
                           !.blob = Marker_new_usize(o, pad_len, st)]
    /\ UNCHANGED <<file, map, batch, it, written, marks, term, abandoned>>

\* Marker::set_state on the marker made.
Marker_set_state(st) ==
    /\ res.op \in {"marker_new", "set_state"}
    /\ res' = [res EXCEPT !.op = "set_state", !.val = st,
                          !.blob = set_state(res.blob, st)]
    /\ UNCHANGED <<file, map, batch, it, written, marks, term, abandoned>>

MarkerNext ==
    \/ \E o \in WideOffsets : \E pad_len \in 0..7 : \E st \in {Clean, Dirty} :
          Marker_made(o, pad_len, st)
    \/ \E st \in {Clean, Dirty} : Marker_set_state(st)
    \/ Returned

MarkerSpec == Init /\ [][MarkerNext]_vars

\* ------------------------------------------ a search, call by call
\* Offset::offset and Offset::midpoint.
Offset_offset_zero(raw, n) == raw

Offset_offset(raw, n) == raw + n

Offset_midpoint(lo, hi) == (lo + hi) \div 2

\* Closures that answer by call number for a prefix of calls and give one
\* verdict at every call after it.
Verdicts == Answers \cup {"OkSome", "OkNone"}

Prefixes == UNION {[1..n -> Answers] : n \in 0..MaxPrefix}

\* A search is in progress: at the entry of binary_search_in_range
\* ("Call") or at the head of its loop ("Loop").
Running == res.op = "search" /\ res.kind \in {"Call", "Loop"}

\* Breccia::binary_search is called: binary_search_in_range on the range
\* from 0 to the length of the view.
Search_call(script, then) ==
    /\ ~batch.open /\ ~it.active /\ res = Idle
    /\ res' = [Idle EXCEPT !.op = "search", !.kind = "Call", !.script = script,
                           !.then = then, !.range = <<0, Len(map)>>]
    /\ UNCHANGED <<file, map, batch, it, written, marks, term, abandoned>>

\* The entry of binary_search_in_range: the range checks, the midpoint and
\* the iterator from the midpoint.
Search_enter ==
    /\ res.op = "search" /\ res.kind = "Call"
    /\ LET lo == res.range[1]
           hi == res.range[2]
           midpoint == Offset_midpoint(lo, hi)
           b == Blobs_new(SubSeq(map, midpoint + 1, Len(map)), midpoint)
       IN  IF lo > hi
           THEN res' = [res EXCEPT !.kind = Panic] /\ it' = NoIter
           ELSE IF lo = hi
           THEN res' = [res EXCEPT !.kind = "None"] /\ it' = NoIter
           ELSE IF midpoint > Len(map)
           THEN res' = [res EXCEPT !.kind = Panic] /\ it' = NoIter
           ELSE /\ res' = [res EXCEPT !.kind = "Loop", !.arg = midpoint]
                /\ it' = [NoIter EXCEPT !.map = b.map, !.offset = b.offset]
    /\ UNCHANGED <<file, map, batch, written, marks, term, abandoned>>

\* A loop that goes on to the next blob when the closure answers Ok(None).
Search_loop_ok_none_continues ==
    /\ res.op = "search" /\ res.kind = "Loop"
    /\ LET lo == res.range[1]
           hi == res.range[2]
           midpoint == res.arg
           r == next(it.map, it.offset)
       IN  IF r.kind = "Some" /\ r.item[1] < hi
           THEN LET v == Compare([script |-> res.script, then |-> res.then],
                                 res.probes, r.item[1], r.item[2])
                    probed == Append(res.probes, r.item[1])
                IN  CASE v.kind = "OkSome" ->
                           /\ res' = [res EXCEPT !.kind = "Some", !.val = v.val,
                                                 !.probes = probed]
                           /\ it' = NoIter
                      [] v.kind \in {"Next", "OkNone"} ->
                           /\ res' = [res EXCEPT !.probes = probed]
                           /\ it' = [it EXCEPT !.map = r.map, !.offset = r.offset]
                      [] v.kind = "Right" ->
                           /\ res' = [res EXCEPT !.kind = "Call", !.probes = probed,
                                         !.range = <<Offset_offset(midpoint, 1), hi>>]
                           /\ it' = NoIter
                      [] v.kind = "Left" ->
                           /\ res' = [res EXCEPT !.kind = "Call", !.probes = probed,
                                                 !.range = <<lo, midpoint>>]
                           /\ it' = NoIter
           ELSE IF lo /= midpoint
                THEN /\ res' = [res EXCEPT !.kind = "Call", !.range = <<lo, midpoint>>]
                     /\ it' = NoIter
                ELSE res' = [res EXCEPT !.kind = "None"] /\ it' = NoIter
    /\ UNCHANGED <<file, map, batch, written, marks, term, abandoned>>

\* One turn of the loop of binary_search_in_range: the next blob from the
\* midpoint, the closure's verdict on it, and the recursive call or the
\* return that follows.
Search_loop ==
    /\ res.op = "search" /\ res.kind = "Loop"
    /\ LET lo == res.range[1]
           hi == res.range[2]
           midpoint == res.arg
           r == next(it.map, it.offset)
       IN  IF r.kind = "Some" /\ r.item[1] < hi
           THEN LET v == Compare([script |-> res.script, then |-> res.then],
                                 res.probes, r.item[1], r.item[2])
                    probed == Append(res.probes, r.item[1])
                IN  CASE v.kind = "OkSome" ->
                           /\ res' = [res EXCEPT !.kind = "Some", !.val = v.val,
                                                 !.probes = probed]
                           /\ it' = NoIter
                      [] v.kind = "OkNone" ->
                           /\ res' = [res EXCEPT !.kind = "None", !.probes = probed]
                           /\ it' = NoIter
                      [] v.kind = "Next" ->
                           /\ res' = [res EXCEPT !.probes = probed]
                           /\ it' = [it EXCEPT !.map = r.map, !.offset = r.offset]
                      [] v.kind = "Right" ->
                           /\ res' = [res EXCEPT !.kind = "Call", !.probes = probed,
                                         !.range = <<Offset_offset(midpoint, 1), hi>>]
                           /\ it' = NoIter
                      [] v.kind = "Left" ->
                           /\ res' = [res EXCEPT !.kind = "Call", !.probes = probed,
                                                 !.range = <<lo, midpoint>>]
                           /\ it' = NoIter
           ELSE IF lo /= midpoint
                THEN /\ res' = [res EXCEPT !.kind = "Call", !.range = <<lo, midpoint>>]
                     /\ it' = NoIter
                ELSE res' = [res EXCEPT !.kind = "None"] /\ it' = NoIter
    /\ UNCHANGED <<file, map, batch, written, marks, term, abandoned>>

\* The caller takes the result of a search that has returned.
Search_returned == ~Running /\ Returned

StepNext ==
    \/ \E blob \in BlobSet : write_blob(blob)
    \/ \E script \in Prefixes : \E then \in Verdicts : Search_call(script, then)
    \/ Search_enter
    \/ Search_loop
    \/ Search_returned

StepSpec == Init /\ [][StepNext]_vars

\* -------------------------------------------- create, for header types
\* A header type H is its MAGIC and the bytes H::serialize writes
\* (SERIALIZED_SIZE of them).
Zeros(n) == [i \in 1..n |-> 0]

MagicOfLen(n) == [i \in 1..n |-> i - 1]

HeaderTypes ==
    {[magic |-> MagicOfLen(n), bytes |-> b] :
        n \in 0..MaxMagic,
        b \in UNION {[1..k -> {66, 254}] : k \in 0..MaxHeaderSize}}

PADDING_SIZE_of(h) == MarkerSize - ((Len(h.magic) + Len(h.bytes)) % MarkerSize)

SIZE_WITH_PADDING_of(h) == Len(h.magic) + Len(h.bytes) + PADDING_SIZE_of(h)

\* Breccia::open_file: the magic is compared, then SIZE_WITH_PADDING -
\* MAGIC.len() bytes and PADDING_SIZE more bytes are read, then the file
\* is mapped and the body starts at SIZE_WITH_PADDING.
open_file_of(h, f) ==
    LET bytes == slice_to_bytes(f)
    IN  IF /\ Len(bytes) >= SIZE_WITH_PADDING_of(h) + PADDING_SIZE_of(h)
           /\ SubSeq(bytes, 1, Len(h.magic)) = h.magic
        THEN [ok |-> TRUE,
              map |-> SubSeq(f, (SIZE_WITH_PADDING_of(h) \div MarkerSize) + 1, Len(f))]
        ELSE [ok |-> FALSE, map |-> <<>>]

\* A create that writes the initial terminator with the Dirty state.
create_from_file_of_dirty(h) ==
    BytesToWords(h.magic \o h.bytes \o Zeros(PADDING_SIZE_of(h)))
        \o <<Marker_new(0, 0, Dirty)>>

\* BrecciaMut::create_from_file for a header of type h, on an empty file.
create_from_file_of(h) ==
    BytesToWords(h.magic \o h.bytes \o Zeros(PADDING_SIZE_of(h)))
        \o <<Marker_new(0, 0, Clean)>>

CreateInit ==
    /\ file = <<>>
    /\ map = <<>>
    /\ batch = NoBatch
    /\ it = NoIter
    /\ res = Idle
    /\ written = <<>>
    /\ marks = {}
    /\ term = 0
    /\ abandoned = FALSE

Create(h) ==
    /\ file = <<>> /\ res = Idle
    /\ LET f == create_from_file_of(h)
           o == open_file_of(h, f)
       IN  /\ file' = f
           /\ map' = o.map
           /\ res' = [Idle EXCEPT !.op = "create", !.header = <<h.magic, h.bytes>>,
                                   !.kind = IF o.ok THEN "Ok" ELSE "Err"]
    /\ marks' = {0}
    /\ UNCHANGED <<batch, it, written, term, abandoned>>

CreateNext ==
    \/ \E h \in HeaderTypes : Create(h)
    \/ file /= <<>> /\ blobs
    \/ Blobs_next
    \/ Blobs_next_back
    \/ Blobs_dropped
    \/ Returned

CreateSpec == CreateInit /\ [][CreateNext]_vars

\* ------------------------------------------------- the padding probe
\* Blobs whose whole chunks read as markers of small body indices, with or
\* without a partial last chunk.
ProbeBlobs ==
    {slice_to_bytes([i \in 1..n |-> Offset_new(v[i])]) \o tail :
        n \in 0..MaxChunks, v \in [1..MaxChunks -> 0..MaxChunkValue],
        tail \in {<<>>, <<7>>}}

\* The probe of Batch::write_blob for a batch whose cursor is k.
Probe(k, blob) ==
    /\ res = Idle
    /\ res' = [Idle EXCEPT !.op = "probe", !.arg = k, !.blob = blob,
                            !.val = PaddingProbe(Chunks(blob), k, 0)]
    /\ UNCHANGED <<file, map, batch, it, written, marks, term, abandoned>>

ProbeNext ==
    \/ \E k \in 0..MaxTerminator : \E blob \in ProbeBlobs : Probe(k, blob)
    \/ Returned

ProbeSpec == CreateInit /\ [][ProbeNext]_vars

\* ------------------------------------------------------------ claims
Reverse(q) == [i \in 1..Len(q) |-> q[Len(q) + 1 - i]]

\* A word of the view that is a Dirty marker of its own index: a pad-marker
\* or the end marker of a blob that was not the last of its batch.
HasDirtyMarker(m) ==
    \E j \in 1..Len(m) : state(m[j]) = Dirty /\ Marker_offset(m[j]) = Offset_new(j - 1)

\* C1: after committed appends only, a fresh blobs() iterator driven by
\* next() yields the (offset, blob) pairs the writes returned, in write
\* order and with strictly increasing offsets, and returns None exactly when
\* all of them have been yielded.
C1_ForwardYieldsWrites ==
    (it.active /\ ~abandoned /\ it.bwd = <<>> /\ ~it.bdone /\ ~it.dead) =>
        /\ IsPrefix(it.fwd, written)
        /\ it.fdone => it.fwd = written
        /\ \A i, j \in 1..Len(it.fwd) : i < j => it.fwd[i][1] < it.fwd[j][1]

C1_Witness ==
    /\ it.active /\ ~abandoned /\ it.bwd = <<>> /\ ~it.bdone /\ ~it.dead
    /\ it.fdone
    /\ Len(it.fwd) >= 3
    /\ HasDirtyMarker(map)
    /\ \E i \in 1..Len(it.fwd) : it.fwd[i][2] = BlobThree /\ it.fwd[i][1] = 3

\* C2: after committed appends only, a fresh blobs() iterator driven by
\* next_back() yields what the forward iterator yields, in reverse order,
\* and returns None exactly when all of it has been yielded (at once on a
\* store without blobs).
C2_BackwardIsReverse ==
    (it.active /\ ~abandoned /\ it.fwd = <<>> /\ ~it.fdone) =>
        /\ ~it.dead
        /\ IsPrefix(it.bwd, Reverse(blobs_collect(map)))
        /\ it.bdone => it.bwd = Reverse(blobs_collect(map))

C2_Witness ==
    /\ it.active /\ ~abandoned /\ it.fwd = <<>> /\ ~it.fdone
    /\ it.bdone
    /\ Len(it.bwd) >= 2
    /\ \E i \in 1..Len(it.bwd) : it.bwd[i][2] = BlobPair /\ it.bwd[i][1] = 2
    /\ \E j \in 1..Len(map) : is_padding(map[j]) /\ j - 1 \notin {0} /\ map[j - 1][1] = 1
                              /\ Marker_offset(map[j]) = Offset_new(j - 1)

Returned_Ok(ops) == res.op \in ops /\ res.kind = "Ok"

\* C3: on a store of committed appends, get_blob of the offset of a pair
\* that blobs() yields returns Ok with that pair's blob.
C3_GetBlobOfYielded ==
    (res.op = "get_blob" /\ ~abandoned) =>
        \A i \in 1..Len(blobs_collect(map)) :
            blobs_collect(map)[i][1] = res.arg =>
                res.kind = "Ok" /\ res.blob = blobs_collect(map)[i][2]

\* C4: after committed appends only, the body words that decode to their
\* own body index are exactly the words written as markers (the initial
\* terminator, pad-markers, end markers).
C4_Framing ==
    ~abandoned =>
        \A i \in 0..(Len(body) - 1) :
            (Marker_offset(body[i + 1]) = Offset_new(i)) <=> (i \in marks)

C4_Witness ==
    /\ ~abandoned
    /\ \E i \in 0..(Len(body) - 1) : i \notin marks /\ body[i + 1] = BlobThree
    /\ \E i \in 0..(Len(body) - 1) : i \notin marks /\ body[i + 1][8] = 254
    /\ \E i \in marks : i > 0 /\ is_padding(body[i + 1]) /\ (i + 1) \in marks
                        /\ is_padding(body[i + 2])

\* C5: blobs() yields no blob of a batch that did not commit, and after a
\* commit has returned it yields every blob a committed write returned.
C5_BatchAtomic ==
    (it.active /\ it.bwd = <<>> /\ ~it.bdone /\ ~it.dead) =>
        /\ \A i \in 1..Len(it.fwd) : \E j \in 1..Len(written) : it.fwd[i] = written[j]
        /\ (it.fdone /\ map = body) =>
               \A j \in 1..Len(written) : \E i \in 1..Len(it.fwd) : it.fwd[i] = written[j]

\* C6: when create, write_blob or commit has returned, the last word of
\* the reader's view is a Clean marker that encodes its own body index.
C6_TailClean ==
    Returned_Ok({"create", "write_blob", "commit"}) =>
        /\ Len(map) >= 1
        /\ state(map[Len(map)]) = Clean
        /\ Marker_offset(map[Len(map)]) = Offset_new(Len(map) - 1)

C6_Witness ==
    /\ Returned_Ok({"commit"})
    /\ abandoned
    /\ Len(map) >= 5
    /\ HasDirtyMarker(map)

\* C7: a batch started after a batch was dropped takes the index of the
\* last committed terminator as its append cursor, and after the next
\* commit blobs() yields exactly the pairs the committed writes returned.
C7_DroppedBatchResumes ==
    /\ (batch.open /\ batch.pending_marker = None) => batch.blob_offset = term
    /\ Returned_Ok({"write_blob", "commit"}) => blobs_collect(map) = written

\* C8: what blobs() yields before a step is a prefix of what it yields
\* after it, and the pairs committed writes returned are only added to.
C8_OffsetsStable ==
    [][/\ IsPrefix(written, written')
       /\ map' /= map => IsPrefix(blobs_collect(map), blobs_collect(map'))]_vars

C8_Witness ==
    /\ abandoned
    /\ map = body
    /\ Returned_Ok({"write_blob"})
    /\ Len(written) >= 2
    /\ Len(blobs_collect(map)) >= 2

\* C9: every step leaves the file as it was or appends to it.
C9_AppendOnly == [][IsPrefix(file, file')]_vars

C9_Witness ==
    /\ abandoned
    /\ Returned_Ok({"commit"})
    /\ Len(written) >= 3
    /\ \E i \in 0..(Len(body) - 1) : i \notin marks /\ body[i + 1][8] = 254

\* C10: on a store of committed appends whose blobs have strictly
\* increasing keys, binary_search with the three-way comparator returns
\* the offset the write of the target's blob returned.
Sorted(w) ==
    /\ \A i \in 1..Len(w) : Len(w[i][2]) >= 1
    /\ \A i, j \in 1..Len(w) : i < j => Key(w[i][2]) < Key(w[j][2])

C10_BinarySearchFinds ==
    (res.op = "binary_search" /\ ~abandoned /\ Sorted(written)) =>
        \A i \in 1..Len(written) :
            Key(written[i][2]) = res.arg => res.kind = "Some" /\ res.val = written[i][1]

C10_Witness ==
    /\ res.op = "binary_search" /\ ~abandoned /\ Sorted(written)
    /\ Len(written) >= 3
    /\ res.kind = "Some" /\ res.val = written[1][1]
    /\ Len(res.probes) >= 2

C10_WitnessPadded ==
    /\ res.op = "binary_search" /\ ~abandoned /\ Sorted(written)
    /\ \E i \in 1..Len(map) : is_padding(map[i]) /\ Marker_offset(map[i]) = Offset_new(i - 1)
    /\ res.kind = "Some" /\ res.val = 3

NoDuplicates(q) == \A i, j \in 1..Len(q) : i < j => q[i] /= q[j]

\* C11: within one binary_search or binary_search_in_range call the
\* comparator is given no offset twice, whatever it answers.
C11_ProbedOnce ==
    (res.op \in {"binary_search", "scripted_search", "range_search"}) =>
        NoDuplicates(res.probes)

Offsets(q) == {q[i][1] : i \in 1..Len(q)}

\* C12: a search of a range that holds no blob start returns None and
\* never calls the comparator: binary_search_in_range with start = end,
\* binary_search on a store without blobs, and any range within the view
\* in which no blob starts.
C12_EmptyRangeNoCall ==
    /\ (res.op = "range_search" /\ res.range[1] = res.range[2]) =>
           res.kind = "None" /\ res.probes = <<>>
    /\ (res.op = "scripted_search" /\ blobs_collect(map) = <<>>) =>
           res.kind = "None" /\ res.probes = <<>>
    /\ (/\ res.op = "range_search"
        /\ res.range[1] <= res.range[2] /\ res.range[2] <= Len(map)
        /\ \A o \in Offsets(blobs_collect(map)) : ~(res.range[1] <= o /\ o < res.range[2])) =>
           res.kind = "None" /\ res.probes = <<>>

C12_Witness ==
    /\ res.op = "range_search"
    /\ res.range[1] = res.range[2]
    /\ res.range[1] \in Offsets(blobs_collect(map))
    /\ res.range[1] >= 1
    /\ Len(blobs_collect(map)) >= 2

C12_WitnessFresh ==
    /\ res.op = "scripted_search" /\ res.script /= <<>>
    /\ blobs_collect(map) = <<>> /\ res.kind = "None"

\* C13: get_blob(o) is Err(OutOfRange) exactly when o is at or past the
\* number of body words of the view, it is Err(Unaligned) when the word at
\* o does not encode o, and the call changes nothing but its result.
C13_GetBlobErrors ==
    [][(res'.op = "get_blob" /\ res.op /= "get_blob") =>
          /\ (res'.kind = "OutOfRange") <=> (res'.arg >= Len(map'))
          /\ (/\ res'.arg < Len(map')
              /\ Marker_offset(map'[res'.arg + 1]) /= Offset_new(res'.arg)) =>
                 res'.kind = "Unaligned"
          /\ UNCHANGED <<file, map, batch, it, written, marks, term, abandoned>>]_vars

C13_Witness ==
    /\ res.op = "get_blob" /\ res.kind = "Unaligned"
    /\ res.arg >= 1 /\ res.arg < Len(map)
    /\ map[res.arg + 1][8] = 254
    /\ \E i \in 1..Len(map) : is_padding(map[i]) /\ Marker_offset(map[i]) = Offset_new(i - 1)

C13_WitnessOutOfRange ==
    /\ res.op = "get_blob" /\ res.kind = "OutOfRange"
    /\ res.arg = Len(map) /\ Len(map) >= 3

\* C14: get_blob(o) is Err(Unaligned) whenever the word at o is a
\* padding-only marker (Dirty, padding_len 7).
C14_GetBlobOfPadding ==
    (res.op = "get_blob" /\ res.arg < Len(map) /\ is_padding(map[res.arg + 1])) =>
        res.kind = "Unaligned"

\* C15: create on an empty file writes the magic, the serialized header,
\* zero bytes up to the header frame (a whole number of words) and one
\* Clean marker of offset 0 and padding_len 0; the view is that one word
\* and blobs() yields nothing forwards or backwards.
C15_Create ==
    /\ res.op = "create" =>
         LET magic == res.header[1]
             bytes == res.header[2]
             h     == [magic |-> magic, bytes |-> bytes]
             pad   == SIZE_WITH_PADDING_of(h) - Len(magic) - Len(bytes)
         IN  /\ res.kind = "Ok"
             /\ SIZE_WITH_PADDING_of(h) % MarkerSize = 0
             /\ pad >= 0
             /\ slice_to_bytes(file) = magic \o bytes \o Zeros(pad) \o Zeros(MarkerSize)
             /\ map = <<Marker_new(0, 0, Clean)>>
             /\ state(map[1]) = Clean /\ padding_len(map[1]) = 0
             /\ Marker_offset(map[1]) = Offset_new(0)
             /\ blobs_collect(map) = <<>>
             /\ next_back(map, 0).kind = "None"
    /\ it.active => (it.fwd = <<>> /\ it.bwd = <<>> /\ ~it.dead)

C15_Witness ==
    /\ it.active /\ it.fdone /\ it.bdone
    /\ Len(file) = 3
    /\ file[2][1] = 254

C15_WitnessAligned ==
    /\ res.op = "create"
    /\ Len(res.header[1]) + Len(res.header[2]) = MarkerSize

\* C16: once next() has returned None on an iterator, no later call on
\* it yields a blob from the front; once next_back() has returned None, no
\* later call yields a blob from the back, and none panics.
C16_Fused ==
    [][(it.active /\ it'.active) =>
          /\ it.fdone => it'.fwd = it.fwd
          /\ it.bdone => (it'.bwd = it.bwd /\ it'.dead = it.dead)]_vars

C16_Witness ==
    /\ it.active /\ it.fdone /\ it.bdone /\ ~it.dead
    /\ Len(it.fwd) >= 2 /\ Len(it.bwd) >= 1
    /\ Len(it.map) >= 1

\* Body index of the end marker of a blob written at offset o.
EndMarkerIndex(o, blob) == o + 1 + ((Len(blob) + end_padding_len(blob)) \div MarkerSize)

\* C17: after commits only, the end marker of every blob a committed
\* write returned is Clean in the file.
C17_CommittedMarkersClean ==
    ~abandoned =>
        \A i \in 1..Len(written) :
            LET e == EndMarkerIndex(written[i][1], written[i][2])
            IN  /\ e < Len(body)
                /\ Marker_offset(body[e + 1]) = Offset_new(e)
                /\ state(body[e + 1]) = Clean

\* C18: after commits only, no marker of the file for which is_padding
\* holds is the end marker of a blob a committed write returned.
C18_PaddingCarriesNoBlob ==
    ~abandoned =>
        \A j \in 0..(Len(body) - 1) :
            (Marker_offset(body[j + 1]) = Offset_new(j) /\ is_padding(body[j + 1])) =>
                \A i \in 1..Len(written) :
                    EndMarkerIndex(written[i][1], written[i][2]) /= j

\* C19: for every blob of length L a committed write returned at offset
\* o, the words after the marker at o hold the blob followed by (-L) mod 8
\* bytes 0xFE, and the next word is a marker with padding_len (-L) mod 8
\* and offset o + 1 + ceil(L / 8).
C19_BlobLayout ==
    ~abandoned =>
        \A i \in 1..Len(written) :
            LET o    == written[i][1]
                blob == written[i][2]
                L    == Len(blob)
                fill == (8 - (L % 8)) % 8
                e    == o + 1 + ((L + 7) \div 8)
            IN  /\ e < Len(body)
                /\ Marker_offset(body[o + 1]) = Offset_new(o)
                /\ slice_to_bytes(SubSeq(body, o + 2, e)) = blob \o [k \in 1..fill |-> 254]
                /\ padding_len(body[e + 1]) = fill
                /\ Marker_offset(body[e + 1]) = Offset_new(e)

C19_Witness ==
    /\ ~abandoned
    /\ \E i \in 1..Len(written) : written[i][2] = BlobNine /\ written[i][1] >= 1
    /\ \E i \in 1..Len(written) : written[i][2] = BlobEmpty
    /\ \E i \in 1..Len(written) : written[i][2] = BlobTwo
    /\ HasDirtyMarker(body)

\* C20: for a blob and a terminator index k the probe ends with a
\* padding p that is at most the number of 8-byte chunks of the blob (the
\* 0xFE-filled last chunk included), at which no chunk i decodes to the
\* index k+1+p+i it lands on, while at every smaller padding some chunk
\* does.
ProbeCollides(blob, k, q) ==
    LET L      == Len(blob)
        padded == blob \o [j \in 1..((8 - (L % 8)) % 8) |-> 254]
    IN  \E i \in 0..(((L + 7) \div 8) - 1) :
            Marker_offset(SubSeq(padded, 8 * i + 1, 8 * i + 8)) = Offset_new(k + 1 + q + i)

C20_ProbeLeast ==
    res.op = "probe" =>
        /\ res.val <= (Len(res.blob) + 7) \div 8
        /\ ~ProbeCollides(res.blob, res.arg, res.val)
        /\ \A q \in 0..(res.val - 1) : ProbeCollides(res.blob, res.arg, q)

C20_Witness ==
    /\ res.op = "probe"
    /\ res.val = 3
    /\ res.arg >= 1
    /\ Len(res.blob) = 3 * MarkerSize

C20_WitnessTail ==
    /\ res.op = "probe"
    /\ res.val = 1
    /\ Len(res.blob) = MarkerSize + 1

\* Body index of the terminator a committed write started from: the end
\* marker of the blob before it, or the initial terminator.
PriorTerminator(w, i) ==
    IF i = 1 THEN 0 ELSE w[i - 1][1] + 1 + ((Len(w[i - 1][2]) + 7) \div 8)

\* C21: for a committed write that started from the terminator at k and
\* returned offset k+p, the word at k still encodes k, the words k+1..k+p
\* are padding-only markers that encode their own indices, the payload
\* starts at word k+p+1, and the forward iterator yields the blob at offset
\* k+p, the pad-markers yielding nothing.
C21_PadMarkers ==
    ~abandoned =>
        \A i \in 1..Len(written) :
            LET k    == PriorTerminator(written, i)
                o    == written[i][1]
                blob == written[i][2]
            IN  /\ o >= k
                /\ Marker_offset(body[k + 1]) = Offset_new(k)
                /\ i = 1 => body[k + 1] = Marker_new(0, 0, Clean)
                /\ \A j \in (k + 1)..o :
                       /\ is_padding(body[j + 1])
                       /\ body[j + 1] = Marker_new(j, 7, Dirty)
                /\ IsPrefix(blob, slice_to_bytes(SubSeq(body, o + 2, Len(body))))
                /\ map = body =>
                       /\ Len(blobs_collect(map)) = Len(written)
                       /\ blobs_collect(map)[i] = <<o, blob>>

C21_Witness ==
    /\ ~abandoned /\ map = body
    /\ Len(written) = 2
    /\ written[2][2] = BlobPair
    /\ written[2][1] = PriorTerminator(written, 2) + 1
    /\ PriorTerminator(written, 2) >= 1

C21_WitnessSingle ==
    /\ ~abandoned /\ map = body
    /\ written = <<<<2, BlobPair>>>>
    /\ res.op = "write_blob" /\ res.val = 2

IsCleanMarkerAt(b, j) ==
    Marker_offset(b[j + 1]) = Offset_new(j) /\ state(b[j + 1]) = Clean

\* The file cut after its last Clean marker that encodes its own index.
TruncateToLastClean(f) ==
    LET b    == try_map_to_markers_slice(f)
        last == CHOOSE j \in 0..(Len(b) - 1) :
                    /\ IsCleanMarkerAt(b, j)
                    /\ \A j2 \in (j + 1)..(Len(b) - 1) : ~IsCleanMarkerAt(b, j2)
    IN  SubSeq(f, 1, (Len(f) - Len(b)) + last + 1)

\* C22: while a batch on a store of committed appends is open, whatever
\* prefix of the words it has written reaches the file, no word after the
\* pre-batch terminator is a Clean marker that encodes its own index, and
\* cutting the file after its last such marker gives the pre-batch file.
C22_NoCleanMarkerMidBatch ==
    (batch.open /\ ~abandoned) =>
        \A n \in 0..Len(batch.buf) :
            LET crashed == file \o SubSeq(batch.buf, 1, n)
                b       == try_map_to_markers_slice(crashed)
            IN  /\ IsCleanMarkerAt(b, term)
                /\ \A j \in (term + 1)..(Len(b) - 1) : ~IsCleanMarkerAt(b, j)
                /\ TruncateToLastClean(crashed) = file
                /\ n = Len(batch.buf) => Batch_drop(batch, file) = crashed

C22_Witness ==
    /\ batch.open /\ ~abandoned
    /\ term >= 1
    /\ Len(batch.buf) >= 4
    /\ \E j \in 1..Len(batch.buf) : is_padding(batch.buf[j])
    /\ \E j \in 1..Len(batch.buf) : state(batch.buf[j]) = Dirty /\ padding_len(batch.buf[j]) = 0
    /\ batch.pending_marker /= None

\* C23: start_batch, and so BrecciaMut::write_blob, on a file whose last
\* word has the Dirty state bit stops before it writes: the call ends in
\* a panic, no batch is open and the file and the view are as before.
C23_DirtyTailRefused ==
    [][(/\ state(file[Len(file)]) = Dirty
        /\ (start_batch \/ \E blob \in BlobSet : write_blob(blob))) =>
          /\ file' = file
          /\ map' = map
          /\ ~batch'.open
          /\ res'.kind = Panic]_vars

C23_Witness ==
    /\ res.op \in {"start_batch", "write_blob"} /\ res.kind = Panic
    /\ state(file[Len(file)]) = Dirty
    /\ is_padding(file[Len(file)])
    /\ Len(written) >= 1

\* The pairs of q whose offset is at least mid, in order.
FromOffset(q, mid) == LET AtOrAfter(x) == x[1] >= mid IN SelectSeq(q, AtOrAfter)

\* C24: on a store of committed writes, the iterator made by Blobs::new
\* on the view from body index mid yields the written blobs whose offset
\* is at least mid, in write order, and then None.
C24_Resync ==
    res.op = "resync" => res.blob = FromOffset(written, res.arg)

C24_Witness ==
    /\ res.op = "resync"
    /\ Len(written) >= 3
    /\ Len(res.blob) = 2
    /\ res.arg > written[1][1] + 1
    /\ res.arg < res.blob[1][1]
    /\ map[res.arg + 1][8] = 254

C24_WitnessPad ==
    /\ res.op = "resync" /\ res.arg < Len(map)
    /\ is_padding(map[res.arg + 1]) /\ Marker_offset(map[res.arg + 1]) = Offset_new(res.arg)
    /\ Len(res.blob) >= 1 /\ res.blob[1][1] = res.arg + 1

\* The number of words in the range of a search.
RangeSize(r) == r.range[2] - r.range[1]

\* C25: binary_search terminates on every committed store, whatever the
\* closure answers.  While a search runs, each step lowers the triple
\* (size of the range, entry before loop, blobs left to the iterator) in
\* the lexicographic order: a recursive call is on a strictly smaller range
\* inside the old one, [midpoint + 1, hi) after Right and [lo, midpoint)
\* after Left or when the blobs are used up; the entry keeps the range and
\* goes to the loop; Next keeps the range and uses up a blob.  The search
\* then returns what the recursive function computes.
C25_SearchTerminates ==
    [][Running =>
        /\ RangeSize(res) >= 0
        /\ res'.op = "search"
        /\ (res.kind = "Loop" /\ res'.kind = "Call") =>
              /\ RangeSize(res') < RangeSize(res)
              /\ \/ res'.range = <<res.arg + 1, res.range[2]>>
                 \/ res'.range = <<res.range[1], res.arg>>
        /\ (res.kind = "Call" /\ res'.kind = "Loop") => res'.range = res.range
        /\ (res.kind = "Loop" /\ res'.kind = "Loop") =>
              /\ res'.range = res.range
              /\ Len(it'.map) < Len(it.map)
        /\ ~(res.kind = "Call" /\ res'.kind = "Call")
        /\ res'.kind \notin {"Call", "Loop"} =>
              LET r == binary_search(map, [script |-> res.script, then |-> res.then])
              IN  /\ res'.kind = r.kind /\ res'.val = r.val /\ res'.probes = r.probes
                  /\ r.kind \in {"Some", "None"}
      ]_vars

\* A closure that always answers Right has been asked about the one large
\* blob of a store, once, and the search has returned None.
C25_Witness ==
    /\ written = <<<<0, BlobNine>>>>
    /\ res.op = "search" /\ res.script = <<>> /\ res.then = "Right"
    /\ res.kind = "None" /\ res.probes = <<0>>

\* A closure that always answers Next has been given every blob of a store
\* of three blobs and the search has returned.
C25_WitnessNext ==
    /\ Len(written) = 3
    /\ res.op = "search" /\ res.script = <<>> /\ res.then = "Next"
    /\ res.kind = "None" /\ Len(res.probes) >= 3

\* The verdict a closure gives at its n-th call.
VerdictAt(r, n) == IF n <= Len(r.script) THEN r.script[n] ELSE r.then

\* C26: an Ok verdict ends the search at once.  Of the verdicts a search
\* has been given, only the last can be Ok; when the last is Ok(Some(r))
\* the search has returned Some(r), when it is Ok(None) the search has
\* returned None, and the closure is not called again.
C26_OkEndsSearch ==
    res.op = "search" =>
        LET n == Len(res.probes)
        IN  /\ \A i \in 1..(n - 1) : VerdictAt(res, i) \notin {"OkSome", "OkNone"}
            /\ (n >= 1 /\ VerdictAt(res, n) = "OkSome") =>
                  res.kind = "Some" /\ res.val = res.probes[n]
            /\ (n >= 1 /\ VerdictAt(res, n) = "OkNone") => res.kind = "None"

\* A closure has answered Right and then Ok(Some(r)): the search returned
\* the offset of the second blob it was given.
C26_Witness ==
    /\ res.op = "search" /\ res.script = <<"Right">> /\ res.then = "OkSome"
    /\ res.kind = "Some" /\ Len(res.probes) = 2 /\ res.val = res.probes[2]

\* A closure has answered Ok(None) at its first call, on a store of two
\* blobs.
C26_WitnessNone ==
    /\ Len(written) = 2
    /\ res.op = "search" /\ res.script = <<>> /\ res.then = "OkNone"
    /\ res.kind = "None" /\ Len(res.probes) = 1

\* C27: for every magic length M and serialized size S the header frame is
\* M + S + P bytes, a multiple of 8, with P in 0..7, and the first body
\* word starts at that byte of the file.
C27_HeaderFrame ==
    res.op = "create" =>
        LET h == [magic |-> res.header[1], bytes |-> res.header[2]]
            M == Len(h.magic)
            S == Len(h.bytes)
            P == PADDING_SIZE_of(h)
            frame == SIZE_WITH_PADDING_of(h)
        IN  /\ frame = M + S + P
            /\ frame % MarkerSize = 0
            /\ P \in 0..7
            /\ Len(slice_to_bytes(file)) = frame + MarkerSize
            /\ SubSeq(slice_to_bytes(file), frame + 1, frame + MarkerSize)
                 = slice_to_bytes(<<Marker_new(0, 0, Clean)>>)

\* C28: the fields of a marker round-trip.  For every offset below 2^60,
\* padding_len in 0..7 and state, the marker made by Marker::new decodes to
\* that offset, padding_len and state; its 8 little-endian bytes carry the
\* offset in bits 0..59, the state in bit 60 and padding_len in bits
\* 61..63; and set_state gives the marker the new state and changes no bit
\* other than bit 60.
C28_MarkerRoundTrip ==
    [][/\ res'.op = "marker_new" =>
            LET m == res'.blob
                o == res'.offset
            IN  /\ Marker_offset(m) = o
                /\ padding_len(m) = res'.arg
                /\ state(m) = res'.val
                /\ \A k \in 0..59 : Bit(m, k) = Bit(o, k)
                /\ Bit(m, 60) = res'.val
                /\ Bit(m, 61) + 2 * Bit(m, 62) + 4 * Bit(m, 63) = res'.arg
                /\ (\A i \in 4..8 : o[i] = 0) =>
                      m = Marker_new(o[1] + 256 * o[2] + 65536 * o[3],
                                     res'.arg, res'.val)
       /\ res'.op = "set_state" =>
            /\ state(res'.blob) = res'.val
            /\ Bit(res'.blob, 60) = res'.val
            /\ \A k \in (0..63) \ {60} : Bit(res'.blob, k) = Bit(res.blob, k)
            /\ Marker_offset(res'.blob) = res.offset
            /\ padding_len(res'.blob) = res.arg
      ]_vars

\* The marker of the offset 2^60 - 1 with padding_len 7 was made Dirty and
\* has been set Clean.
C28_Witness ==
    /\ res.op = "set_state" /\ res.val = Clean
    /\ res.offset = <<255, 255, 255, 255, 255, 255, 255, 15>>
    /\ res.blob = <<255, 255, 255, 255, 255, 255, 255, 239>>

\* The marker of the crate's test: offset 42, padding_len 0b101, Clean.
C28_WitnessTest ==
    /\ res.op = "marker_new"
    /\ res.offset = Offset_new(42) /\ res.arg = 5 /\ res.val = Clean
    /\ res.blob = <<42, 0, 0, 0, 0, 0, 0, 160>>

\* C29: on one iterator over a store of committed appends, any interleaving
\* of next() and next_back() yields every blob exactly once with its offset
\* and content: what came from the front is a prefix of the blobs of the
\* store, what came from the back is a prefix of their reverse, the two
\* never overlap, once either end has returned None every blob has been
\* yielded, and no call panics.
C29_Interleaving ==
    (it.active /\ ~abandoned) =>
        LET all == blobs_collect(map)
        IN  /\ ~it.dead
            /\ IsPrefix(it.fwd, all)
            /\ IsPrefix(it.bwd, Reverse(all))
            /\ Len(it.fwd) + Len(it.bwd) <= Len(all)
            /\ (it.fdone \/ it.bdone) => it.fwd \o Reverse(it.bwd) = all

\* C30: get_blob is total on a store of committed appends: for every
\* offset it returns Ok(blob) or a GetBlobError; it neither panics nor runs
\* forever, whether the offset is the final terminator's, the next word is
\* a pad-marker, or the blob at the offset has a payload.
C30_GetBlobTotal ==
    (res.op = "get_blob" /\ ~abandoned) =>
        res.kind \in {"Ok", "OutOfRange", "Unaligned"}

\* C31: binary_search_in_range panics only when range.start > range.end.
\* With a closure that does not panic itself (the integer comparator on a
\* store without empty blobs), a search of a range with start <= end
\* returns Some or None, also when the end or the start of the range lies
\* past the number of body words; with start > end it panics.
C31_PanicsOnlyOnReversedRange ==
    (res.op = "range_search" /\ \A i \in 1..Len(written) : written[i][2] /= <<>>) =>
        /\ res.range[1] > res.range[2] => res.kind = Panic
        /\ res.range[1] <= res.range[2] => res.kind \in {"Some", "None"}

\* C32: Batch::commit on a batch in which no blob was written panics and
\* writes nothing: the batch is gone, and the file and the reader's view
\* are what they were when the batch was started.
C32_EmptyCommitPanics ==
    [][(commit /\ batch.pending_marker = None) =>
          /\ res'.op = "commit" /\ res'.kind = Panic
          /\ batch.buf = <<>> /\ batch.log = <<>>
          /\ file' = file /\ map' = map
          /\ written' = written /\ term' = term
          /\ ~batch'.open]_vars

\* A commit of an empty batch has panicked on a store that holds two
\* committed blobs.
C32_Witness ==
    /\ res.op = "commit" /\ res.kind = Panic
    /\ ~batch.open /\ ~abandoned
    /\ Len(written) = 2 /\ map = body

====
